---------------------------- MODULE Spec2Model ----------------------------
(*
  The procedural macros of ascolt-macros (src/lib.rs) as functions from a
  parsed declaration to an expansion result:

    ask_handler, tell_handler : ItemFn      -> tokens of one trait impl, or a panic
                                (tokens syn cannot parse as a function ->
                                 the parse error as compile_error!)
    derive_actor              : DeriveInput -> tokens of one marker impl, or a panic
    strip_reference           : Type        -> Type

  The syntax tree handed over by syn is modelled structurally: a type is a
  record tagged "Path", "Reference" or "Tuple"; a function argument is tagged
  "Receiver" or "Typed"; a return type is tagged "Default" or "Type".  A
  panic of the macro (expect / panic! / unwrap) is an expansion result that
  carries the panic message and no tokens.
*)
EXTENDS Naturals, Sequences, FiniteSets

VARIABLES item, invoked, output

vars == <<item, invoked, output>>

-----------------------------------------------------------------------------
(* Bounds of the explored inputs. *)

\* Largest number of typed (non-receiver) parameters of an explored function.
MaxTyped == 2
\* Largest number of attributes on an explored derive input.
MaxAttrs == 2
\* Deepest nesting of reference wrappers on a type handed to strip_reference.
MaxRefDepth == 2

SeqUpTo(S, n) == UNION {[1..k -> S] : k \in 0..n}

-----------------------------------------------------------------------------
(* syn::Type and its parts. *)

NoArguments == [tag |-> "None", args |-> <<>>]
AngleBracketed(a) == [tag |-> "AngleBracketed", args |-> a]
Segment(id, arguments) == [ident |-> id, arguments |-> arguments]
TypePath(segs) == [tag |-> "Path", segments |-> segs]
Named(id) == TypePath(<<Segment(id, NoArguments)>>)
Generic(id, a) == TypePath(<<Segment(id, AngleBracketed(a))>>)
TypeReference(m, t) == [tag |-> "Reference", mutability |-> m, elem |-> t]
Ref(t) == TypeReference(FALSE, t)
RefMut(t) == TypeReference(TRUE, t)
TypeTuple(elems) == [tag |-> "Tuple", elems |-> elems]
UnitType == TypeTuple(<<>>)

\* Option<T>
None == [tag |-> "None"]
Some(v) == [tag |-> "Some", value |-> v]

-----------------------------------------------------------------------------
(* Expansion results. *)

Pending == [status |-> "pending"]
\* A panicking macro aborts the expansion: the compiler reports the message
\* and no token of the macro's output exists.
Panic(m) == [status |-> "panic", message |-> m, tokens |-> <<>>]
Expanded(t) == [status |-> "ok", message |-> "", tokens |-> t]
\* parse_macro_input! on tokens syn cannot parse: the macro returns, without
\* panicking, an invocation of compile_error! with syn's message.
CompileError(m) ==
    [status |-> "compile_error", message |-> m,
     tokens |-> <<[macro |-> "compile_error", message |-> m]>>]

MissingSelfMsg == "Missing self: &Actor argument"
MissingMsgMsg == "Missing msg argument"
ExpectedPathMsg == "Expected a path type (e.g. Result<T, E>)"
ExpectedResultMsg == "Expected a Result return type"
MustBeResultMsg == "Return type must be Result<T, E>"
ExpectedAngleMsg == "Expected Result<T, E> with angle-bracketed args"
MissingSuccessMsg == "Missing success type in Result<T, E>"
MissingErrorMsg == "Missing error type in Result<T, E>"
MissingReturnMsg == "Expected function to have a return type"
UnsupportedAttrMsg == "unsupported attribute"
\* What Result::unwrap panics with on Err(e): a fixed text that names unwrap
\* and Err, then the Debug form of the syn::Error.  Rust writes unwrap() and
\* Err between backquotes; a TLA+ string cannot hold a backquote, so each is
\* written as an apostrophe here.
UnwrapPanicMsg(e) ==
    CASE e = UnsupportedAttrMsg ->
        "called 'Result::unwrap()' on an 'Err' value: Error(\"unsupported attribute\")"
MissingActorErrorMsg == "missing #[actor(error = ...)]"

-----------------------------------------------------------------------------
(* fn strip_reference *)

\* A slip that removes one reference wrapper only.
strip_reference_once(ty) ==
    IF ty.tag = "Reference" THEN ty.elem ELSE ty

RECURSIVE strip_reference(_)
strip_reference(ty) ==
    IF ty.tag = "Reference" THEN strip_reference(ty.elem) ELSE ty


-----------------------------------------------------------------------------
(* syn::FnArg, syn::Pat, syn::ReturnType, syn::ItemFn *)

\* `&self` is reference = TRUE, colon_token = FALSE, ty = &Self;
\* `self: T` is reference = FALSE, colon_token = TRUE, ty = T.
FnArgReceiver(reference, colon_token, ty) ==
    [tag |-> "Receiver", reference |-> reference, colon_token |-> colon_token,
     ty |-> ty]
PatIdent(mutability, id) == [tag |-> "Ident", mutability |-> mutability, ident |-> id]
PatWild == [tag |-> "Wild"]
FnArgTyped(pat, ty) == [tag |-> "Typed", pat |-> pat, ty |-> ty]

ReturnDefault == [tag |-> "Default"]
ReturnType(ty) == [tag |-> "Type", ty |-> ty]

ItemFn(id, inputs, ret, block) ==
    [kind |-> "fn", sig |-> [ident |-> id, inputs |-> inputs, output |-> ret],
     block |-> block]

-----------------------------------------------------------------------------
(* The tokens the macros emit, as the declaration they parse to. *)

\* A brace-delimited group: a block `{ ... }`.  The method body is written
\* `{ #block }`: a new pair of braces around the interpolated tokens.  #block
\* is the block of the function with its own braces, so the method body is a block
\* whose only expression is the original block.
\* The statements a user wrote between the braces of a function, never parsed.
Code(text) == [tag |-> "Verbatim", text |-> text]
Braced(tokens) == [delimiter |-> "Brace", stmts |-> <<tokens>>]

\* A slip that interpolates the block without the braces around it.
ImplMethodBare(id, inputs, ret, block) ==
    [asyncness |-> TRUE, ident |-> id, inputs |-> inputs, output |-> ret,
     block |-> block]

ImplMethod(id, inputs, ret, block) ==
    [asyncness |-> TRUE, ident |-> id, inputs |-> inputs, output |-> ret,
     block |-> Braced(block)]
ItemImpl(attrs, trait_path, trait_args, self_ty, items) ==
    [attrs |-> attrs, trait_path |-> trait_path, trait_args |-> trait_args,
     self_ty |-> self_ty, items |-> items]

AsyncTraitAttr == "async_trait::async_trait"
AskTraitPath == "ascolt::handler::AskHandlerTrait"
TellTraitPath == "ascolt::handler::TellHandlerTrait"
ActorTraitPath == "ascolt::ActorTrait"

-----------------------------------------------------------------------------
(* fn extract_result_types *)

ResultTypes(resp, err) == [status |-> "ok", resp |-> resp, err |-> err]

\* A slip that reads the two type arguments in the wrong order.
extract_result_types_swapped(fn_output) ==
    IF fn_output.tag # "Type" THEN Panic(MissingReturnMsg)
    ELSE IF fn_output.ty.tag # "Path" THEN Panic(ExpectedPathMsg)
    ELSE IF Len(fn_output.ty.segments) = 0 THEN Panic(ExpectedResultMsg)
    ELSE LET seg == Head(fn_output.ty.segments) IN
         IF seg.ident # "Result" THEN Panic(MustBeResultMsg)
         ELSE IF seg.arguments.tag # "AngleBracketed" THEN Panic(ExpectedAngleMsg)
         ELSE IF Len(seg.arguments.args) < 1 THEN Panic(MissingSuccessMsg)
         ELSE IF Len(seg.arguments.args) < 2 THEN Panic(MissingErrorMsg)
         ELSE ResultTypes(seg.arguments.args[2], seg.arguments.args[1])

extract_result_types(fn_output) ==
    IF fn_output.tag # "Type" THEN Panic(MissingReturnMsg)
    ELSE IF fn_output.ty.tag # "Path" THEN Panic(ExpectedPathMsg)
    ELSE IF Len(fn_output.ty.segments) = 0 THEN Panic(ExpectedResultMsg)
    ELSE LET seg == Head(fn_output.ty.segments) IN
         IF seg.ident # "Result" THEN Panic(MustBeResultMsg)
         ELSE IF seg.arguments.tag # "AngleBracketed" THEN Panic(ExpectedAngleMsg)
         ELSE IF Len(seg.arguments.args) < 1 THEN Panic(MissingSuccessMsg)
         ELSE IF Len(seg.arguments.args) < 2 THEN Panic(MissingErrorMsg)
         ELSE ResultTypes(seg.arguments.args[1], seg.arguments.args[2])

-----------------------------------------------------------------------------
(* The parameter loop shared by ask_handler and tell_handler. *)

NothingFound == [actor_ty |-> None, msg_ty |-> None]

\* A slip that binds any named parameter as the message.
ScanArgAnyName(found, arg) ==
    IF arg.tag = "Receiver" THEN [found EXCEPT !.actor_ty = Some(arg.ty)]
    ELSE IF arg.pat.tag = "Ident"
         THEN [found EXCEPT !.msg_ty = Some(arg.ty)]
         ELSE found

\* One iteration of `for arg in inputs`.
ScanArg(found, arg) ==
    IF arg.tag = "Receiver" THEN [found EXCEPT !.actor_ty = Some(arg.ty)]
    ELSE IF arg.pat.tag = "Ident" /\ arg.pat.ident = "msg"
         THEN [found EXCEPT !.msg_ty = Some(arg.ty)]
         ELSE found

RECURSIVE ScanInputs(_, _)
ScanInputs(found, inputs) ==
    IF inputs = <<>> THEN found
    ELSE ScanInputs(ScanArg(found, Head(inputs)), Tail(inputs))


-----------------------------------------------------------------------------
(* pub fn ask_handler, pub fn tell_handler *)

\* A slip that decomposes the return type before looking for the receiver
\* and the message parameter.
ask_handler_return_first(input) ==
    IF input.kind = "tokens" THEN CompileError(input.parse_error) ELSE
    LET found == ScanInputs(NothingFound, input.sig.inputs)
        types == extract_result_types(input.sig.output)
    IN  IF types.status = "panic" THEN types
        ELSE IF found.msg_ty = None THEN Panic(MissingMsgMsg)
        ELSE IF found.actor_ty = None THEN Panic(MissingSelfMsg)
        ELSE Expanded(<<ItemImpl(
                 <<AsyncTraitAttr>>, AskTraitPath,
                 <<strip_reference(found.msg_ty.value), types.resp, types.err>>,
                 strip_reference(found.actor_ty.value),
                 <<ImplMethod(input.sig.ident,
                              <<FnArgReceiver(FALSE, TRUE, found.actor_ty.value),
                                FnArgTyped(PatIdent(FALSE, "msg"), found.msg_ty.value)>>,
                              ReturnType(Generic("Result", <<types.resp, types.err>>)),
                              input.block)>>)>>)

ask_handler(input) ==
    IF input.kind = "tokens" THEN CompileError(input.parse_error) ELSE
    LET found == ScanInputs(NothingFound, input.sig.inputs)
    IN  IF found.actor_ty = None THEN Panic(MissingSelfMsg)
        ELSE IF found.msg_ty = None THEN Panic(MissingMsgMsg)
        ELSE LET actor_ty == found.actor_ty.value
                 msg_ty == found.msg_ty.value
                 clean_actor_ty == strip_reference(actor_ty)
                 clean_msg_ty == strip_reference(msg_ty)
                 types == extract_result_types(input.sig.output)
             IN  IF types.status = "panic" THEN types
                 ELSE Expanded(<<ItemImpl(
                          <<AsyncTraitAttr>>, AskTraitPath,
                          <<clean_msg_ty, types.resp, types.err>>,
                          clean_actor_ty,
                          <<ImplMethod(input.sig.ident,
                                       <<FnArgReceiver(FALSE, TRUE, actor_ty),
                                         FnArgTyped(PatIdent(FALSE, "msg"), msg_ty)>>,
                                       ReturnType(Generic("Result", <<types.resp, types.err>>)),
                                       input.block)>>)>>)

\* A slip that keeps the declared success type in the emitted return type.
tell_handler_keeps_success(input) ==
    IF input.kind = "tokens" THEN CompileError(input.parse_error) ELSE
    LET found == ScanInputs(NothingFound, input.sig.inputs)
    IN  IF found.actor_ty = None THEN Panic(MissingSelfMsg)
        ELSE IF found.msg_ty = None THEN Panic(MissingMsgMsg)
        ELSE LET actor_ty == found.actor_ty.value
                 msg_ty == found.msg_ty.value
                 types == extract_result_types(input.sig.output)
             IN  IF types.status = "panic" THEN types
                 ELSE Expanded(<<ItemImpl(
                          <<AsyncTraitAttr>>, TellTraitPath,
                          <<strip_reference(msg_ty), types.err>>,
                          strip_reference(actor_ty),
                          <<ImplMethod(input.sig.ident,
                                       <<FnArgReceiver(FALSE, TRUE, actor_ty),
                                         FnArgTyped(PatIdent(FALSE, "msg"), msg_ty)>>,
                                       ReturnType(Generic("Result", <<types.resp, types.err>>)),
                                       input.block)>>)>>)

tell_handler(input) ==
    IF input.kind = "tokens" THEN CompileError(input.parse_error) ELSE
    LET found == ScanInputs(NothingFound, input.sig.inputs)
    IN  IF found.actor_ty = None THEN Panic(MissingSelfMsg)
        ELSE IF found.msg_ty = None THEN Panic(MissingMsgMsg)
        ELSE LET actor_ty == found.actor_ty.value
                 msg_ty == found.msg_ty.value
                 clean_actor_ty == strip_reference(actor_ty)
                 clean_msg_ty == strip_reference(msg_ty)
                 types == extract_result_types(input.sig.output)
             IN  IF types.status = "panic" THEN types
                 ELSE Expanded(<<ItemImpl(
                          <<AsyncTraitAttr>>, TellTraitPath,
                          <<clean_msg_ty, types.err>>,
                          clean_actor_ty,
                          <<ImplMethod(input.sig.ident,
                                       <<FnArgReceiver(FALSE, TRUE, actor_ty),
                                         FnArgTyped(PatIdent(FALSE, "msg"), msg_ty)>>,
                                       ReturnType(Generic("Result", <<UnitType, types.err>>)),
                                       input.block)>>)>>)

-----------------------------------------------------------------------------
(* pub fn derive_actor *)

\* One `key = Type` entry inside #[path(...)].
NestedMeta(path, value) == [path |-> path, value |-> value]
Attribute(path, nested) == [path |-> path, nested |-> nested]
DeriveInput(id, attrs) == [kind |-> "derive", ident |-> id, attrs |-> attrs]

Parsed(error_ty) == [status |-> "ok", error_ty |-> error_ty]
\* Err(meta.error(..)) returned by the closure.
Err(e) == [status |-> "err", error |-> e]

\* attr.parse_nested_meta(closure): the closure runs on each entry in turn;
\* its first Err ends the parse and is the result.
RECURSIVE parse_nested_meta(_, _)
parse_nested_meta(error_ty, nested) ==
    IF nested = <<>> THEN Parsed(error_ty)
    ELSE IF Head(nested).path = "error"
         THEN parse_nested_meta(Some(Head(nested).value), Tail(nested))
         ELSE Err(UnsupportedAttrMsg)

\* for attr in input.attrs.iter().filter(|a| a.path().is_ident("actor"))
RECURSIVE ScanAttrs(_, _)
ScanAttrs(error_ty, attrs) ==
    IF attrs = <<>> THEN Parsed(error_ty)
    ELSE IF Head(attrs).path # "actor" THEN ScanAttrs(error_ty, Tail(attrs))
    ELSE LET parsed == parse_nested_meta(error_ty, Head(attrs).nested)
         IN  \* .unwrap()
             IF parsed.status = "err" THEN Panic(UnwrapPanicMsg(parsed.error))
             ELSE ScanAttrs(parsed.error_ty, Tail(attrs))

derive_actor(input) ==
    LET parsed == ScanAttrs(None, input.attrs)
    IN  IF parsed.status = "panic" THEN parsed
        ELSE IF parsed.error_ty = None THEN Panic(MissingActorErrorMsg)
        ELSE Expanded(<<ItemImpl(<<>>, ActorTraitPath, <<parsed.error_ty.value>>,
                                 Named(input.ident), <<>>)>>)


-----------------------------------------------------------------------------
(* The explored declarations. *)

Worker == Named("Worker")
Ping == Named("Ping")
Pong == Named("Pong")
Counter == Named("Counter")
WorkerError == Named("WorkerError")

\* No receiver, `&self`, `self: &Worker`, `self: Worker`.
Receivers ==
    { FnArgReceiver(TRUE, FALSE, Ref(Named("Self"))),
      FnArgReceiver(FALSE, TRUE, Ref(Worker)),
      FnArgReceiver(FALSE, TRUE, Worker) }

\* msg: Ping, msg: &Ping, msg: &&mut Ping, mut msg: Ping,
\* state: &mut Counter, extra: u32, _: Ping
TypedArgs ==
    { FnArgTyped(PatIdent(FALSE, "msg"), Ping),
      FnArgTyped(PatIdent(FALSE, "msg"), Ref(Ping)),
      FnArgTyped(PatIdent(FALSE, "msg"), Ref(RefMut(Ping))),
      FnArgTyped(PatIdent(TRUE, "msg"), Ping),
      FnArgTyped(PatIdent(FALSE, "state"), RefMut(Counter)),
      FnArgTyped(PatIdent(FALSE, "extra"), Named("u32")),
      FnArgTyped(PatWild, Ping) }

\* syn accepts a receiver only as the first parameter, and only once.
FnInputs ==
    { r \o t : r \in {<<>>} \cup {<<x>> : x \in Receivers},
               t \in SeqUpTo(TypedArgs, MaxTyped) }

\* (none), Result<Pong, WorkerError>, Result<(), WorkerError>, Result<Pong>,
\* Result<>, Result, Result<Pong, WorkerError, Counter>,
\* Option<Pong>, Pong, (), std::result::Result<Pong, WorkerError>
ReturnTypes ==
    { ReturnDefault,
      ReturnType(Generic("Result", <<Pong, WorkerError>>)),
      ReturnType(Generic("Result", <<UnitType, WorkerError>>)),
      ReturnType(Generic("Result", <<Pong>>)),
      ReturnType(Generic("Result", <<>>)),
      ReturnType(Named("Result")),
      ReturnType(Generic("Result", <<Pong, WorkerError, Counter>>)),
      ReturnType(Generic("Option", <<Pong>>)),
      ReturnType(Pong),
      ReturnType(UnitType),
      ReturnType(TypePath(<<Segment("std", NoArguments),
                            Segment("result", NoArguments),
                            Segment("Result", AngleBracketed(<<Pong, WorkerError>>))>>)) }

FnBodies ==
    { [ident |-> "handle", block |-> Braced(Code("Ok(Pong)"))],
      [ident |-> "on_inc", block |-> Braced(Code("state.n += 1; Ok(())"))] }

FnItems ==
    { ItemFn(b.ident, i, r, b.block) : b \in FnBodies, i \in FnInputs, r \in ReturnTypes }

\* Tokens under a handler attribute that syn does not parse as an ItemFn, with
\* the error syn reports for them.
TokenItems ==
    { [kind |-> "tokens",
       source |-> "fn handle(self: Worker, msg: Ping) -> Result(Pong) { Ok(Pong) }",
       parse_error |-> "expected curly braces"] }

MyError == Named("MyError")
OtherError == Named("OtherError")

\* #[actor(error = MyError)], #[actor(error = OtherError)], #[actor()],
\* #[actor(timeout = MyError)], #[actor(error = MyError, error = OtherError)],
\* #[actor(error = MyError, timeout = OtherError)], #[doc(hidden = MyError)]
Attributes ==
    { Attribute("actor", <<NestedMeta("error", MyError)>>),
      Attribute("actor", <<NestedMeta("error", OtherError)>>),
      Attribute("actor", <<>>),
      Attribute("actor", <<NestedMeta("timeout", MyError)>>),
      Attribute("actor", <<NestedMeta("error", MyError), NestedMeta("error", OtherError)>>),
      Attribute("actor", <<NestedMeta("error", MyError), NestedMeta("timeout", OtherError)>>),
      Attribute("doc", <<NestedMeta("hidden", MyError)>>) }

DeriveInputs ==
    { DeriveInput(id, a) : id \in {"Worker", "Supervisor"}, a \in SeqUpTo(Attributes, MaxAttrs) }

BaseTypes ==
    { Worker, Named("Self"), UnitType, Generic("Vec", <<Ref(Ping)>>),
      TypeTuple(<<Ref(Ping), RefMut(Counter)>>), Generic("Result", <<Pong, WorkerError>>) }

RECURSIVE Wrapped(_)
Wrapped(n) ==
    IF n = 0 THEN BaseTypes
    ELSE LET W == Wrapped(n - 1)
         IN  W \cup {Ref(t) : t \in W} \cup {RefMut(t) : t \in W}

TypeItems == { [kind |-> "type", ty |-> t] : t \in Wrapped(MaxRefDepth) }

-----------------------------------------------------------------------------
(* One run of one macro (or of strip_reference) on one declaration. *)

Returned(v) == [status |-> "returned", value |-> v]

Init ==
    /\ item \in FnItems \cup TokenItems \cup DeriveInputs \cup TypeItems
    /\ invoked = "none"
    /\ output = Pending

AskHandler ==
    /\ invoked = "none"
    /\ item.kind \in {"fn", "tokens"}
    /\ invoked' = "ask_handler"
    /\ output' = ask_handler(item)
    /\ UNCHANGED item

TellHandler ==
    /\ invoked = "none"
    /\ item.kind \in {"fn", "tokens"}
    /\ invoked' = "tell_handler"
    /\ output' = tell_handler(item)
    /\ UNCHANGED item

DeriveActor ==
    /\ invoked = "none"
    /\ item.kind = "derive"
    /\ invoked' = "derive_actor"
    /\ output' = derive_actor(item)
    /\ UNCHANGED item

StripReference ==
    /\ invoked = "none"
    /\ item.kind = "type"
    /\ invoked' = "strip_reference"
    /\ output' = Returned(strip_reference(item.ty))
    /\ UNCHANGED item

Next == AskHandler \/ TellHandler \/ DeriveActor \/ StripReference

Spec == Init /\ [][Next]_vars


-----------------------------------------------------------------------------
(* Vocabulary of the properties, stated on the declaration itself. *)

Handlers == {"ask_handler", "tell_handler"}
\* A handler macro has run on tokens that parsed as a function.
RanOnFn(macros) == invoked \in macros /\ item.kind = "fn"

HasReceiverParam(inputs) == \E i \in 1..Len(inputs) : inputs[i].tag = "Receiver"
IsNamed(arg, id) == arg.tag = "Typed" /\ arg.pat.tag = "Ident" /\ arg.pat.ident = id
HasParamNamed(inputs, id) == \E i \in 1..Len(inputs) : IsNamed(inputs[i], id)

\* (receiver, msg: M)
TwoRoleShape(inputs) ==
    /\ Len(inputs) = 2
    /\ inputs[1].tag = "Receiver"
    /\ IsNamed(inputs[2], "msg")

\* (receiver, state: S, msg: M)
ThreeRoleShape(inputs) ==
    /\ Len(inputs) = 3
    /\ inputs[1].tag = "Receiver"
    /\ IsNamed(inputs[2], "state")
    /\ IsNamed(inputs[3], "msg")

\* The declared return type is `Result<R, E>`: one segment named Result with
\* exactly two arguments in angle brackets.
DeclaresResult(ret) ==
    /\ ret.tag = "Type"
    /\ ret.ty.tag = "Path"
    /\ Len(ret.ty.segments) = 1
    /\ ret.ty.segments[1].ident = "Result"
    /\ ret.ty.segments[1].arguments.tag = "AngleBracketed"
    /\ Len(ret.ty.segments[1].arguments.args) = 2
SuccessOf(ret) == ret.ty.segments[1].arguments.args[1]
ErrorOf(ret) == ret.ty.segments[1].arguments.args[2]

\* The number of reference wrappers around a type, and the type under them.
RECURSIVE RefDepth(_)
RefDepth(t) == IF t.tag = "Reference" THEN 1 + RefDepth(t.elem) ELSE 0
RECURSIVE Peel(_, _)
Peel(t, n) == IF n = 0 THEN t ELSE Peel(t.elem, n - 1)
Innermost(t) == Peel(t, RefDepth(t))

ReturnTypeMsgs ==
    { ExpectedPathMsg, ExpectedResultMsg, MustBeResultMsg, ExpectedAngleMsg,
      MissingSuccessMsg, MissingErrorMsg }

-----------------------------------------------------------------------------
(* C1 *)

\* What C1 says of everything but the method body: ask_handler on a function
\* (receiver, msg: M) -> Result<R, E> succeeds and emits exactly one impl of
\* AskHandlerTrait<M', R, E> for A' (M', A' the message and receiver types
\* under all their reference wrappers) whose single method has the function's
\* name and returns Result<R, E>.
AskImplHeaderAndSignature ==
    /\ output.status = "ok"
    /\ Len(output.tokens) = 1
    /\ output.tokens[1].trait_path = AskTraitPath
    /\ output.tokens[1].trait_args =
           << Innermost(item.sig.inputs[2].ty),
              SuccessOf(item.sig.output), ErrorOf(item.sig.output) >>
    /\ output.tokens[1].self_ty = Innermost(item.sig.inputs[1].ty)
    /\ Len(output.tokens[1].items) = 1
    /\ output.tokens[1].items[1].ident = item.sig.ident
    /\ output.tokens[1].items[1].output =
           ReturnType(Generic("Result", << SuccessOf(item.sig.output),
                                           ErrorOf(item.sig.output) >>))

\* C1 (as claimed): ask_handler on (receiver, msg: M) -> Result<R, E> emits
\* that impl, and the method's body is the original body unchanged.
C1_BodyIsOriginalBlockAsClaimed ==
    (/\ RanOnFn({"ask_handler"})
     /\ TwoRoleShape(item.sig.inputs)
     /\ DeclaresResult(item.sig.output))
    => /\ AskImplHeaderAndSignature
       /\ output.tokens[1].items[1].block = item.block

\* C1 (amended): ask_handler on (receiver, msg: M) -> Result<R, E> emits that
\* impl, and the method's body is a new block whose only expression is the
\* original block, unchanged.
C1_AskEmitsAskImpl ==
    (/\ RanOnFn({"ask_handler"})
     /\ TwoRoleShape(item.sig.inputs)
     /\ DeclaresResult(item.sig.output))
    => /\ AskImplHeaderAndSignature
       /\ output.tokens[1].items[1].block.delimiter = "Brace"
       /\ output.tokens[1].items[1].block.stmts = <<item.block>>

\* fn handle(self: &Worker, msg: &Ping) -> Result<Pong, WorkerError> { Ok(Pong) }
\* has been expanded by ask_handler.
C1_Witness ==
    /\ invoked = "ask_handler"
    /\ item.kind = "fn"
    /\ item.sig.inputs = << FnArgReceiver(FALSE, TRUE, Ref(Worker)),
                            FnArgTyped(PatIdent(FALSE, "msg"), Ref(Ping)) >>
    /\ item.sig.output = ReturnType(Generic("Result", <<Pong, WorkerError>>))
    /\ item.block = Braced(Code("Ok(Pong)"))
    /\ output.status = "ok"
    /\ output.tokens[1].trait_args = <<Ping, Pong, WorkerError>>
    /\ output.tokens[1].self_ty = Worker
    /\ output.tokens[1].items[1].block = Braced(Braced(Code("Ok(Pong)")))

-----------------------------------------------------------------------------
(* C2 *)

\* C2 (as claimed): tell_handler on (receiver, state: S, msg: M) -> Result<R, E>
\* succeeds and emits an impl of the tell trait parameterized by (S', M', E),
\* whose method still declares the state parameter as written.
C2_TellStatefulAsClaimed ==
    (/\ RanOnFn({"tell_handler"})
     /\ ThreeRoleShape(item.sig.inputs)
     /\ DeclaresResult(item.sig.output))
    => /\ output.status = "ok"
       /\ output.tokens[1].trait_path = TellTraitPath
       /\ output.tokens[1].trait_args =
              << Innermost(item.sig.inputs[2].ty), Innermost(item.sig.inputs[3].ty),
                 ErrorOf(item.sig.output) >>
       /\ \E i \in 1..Len(output.tokens[1].items[1].inputs) :
              output.tokens[1].items[1].inputs[i] = item.sig.inputs[2]

-----------------------------------------------------------------------------
(* C3 *)

\* C3: tell_handler on (receiver, msg: M) -> Result<R, E> emits the header
\* TellHandlerTrait<M', E> and a method returning Result<(), E>: R is in
\* neither, whatever R is.
C3_TellDropsSuccessType ==
    (/\ RanOnFn({"tell_handler"})
     /\ TwoRoleShape(item.sig.inputs)
     /\ DeclaresResult(item.sig.output))
    => /\ output.status = "ok"
       /\ Len(output.tokens) = 1
       /\ output.tokens[1].trait_path = TellTraitPath
       /\ output.tokens[1].trait_args =
              << Innermost(item.sig.inputs[2].ty), ErrorOf(item.sig.output) >>
       /\ Len(output.tokens[1].items) = 1
       /\ output.tokens[1].items[1].output =
              ReturnType(Generic("Result", << UnitType, ErrorOf(item.sig.output) >>))

\* A tell handler declared to return Result<Pong, WorkerError> has been
\* expanded: its success type is not the unit type.
C3_Witness ==
    /\ invoked = "tell_handler"
    /\ item.kind = "fn"
    /\ TwoRoleShape(item.sig.inputs)
    /\ item.sig.output = ReturnType(Generic("Result", <<Pong, WorkerError>>))
    /\ output.status = "ok"
    /\ output.tokens[1].items[1].output =
           ReturnType(Generic("Result", <<UnitType, WorkerError>>))

-----------------------------------------------------------------------------
(* C4 *)

\* C4 (as claimed): a marked function without a parameter named msg fails
\* with the missing-message error, for both macros and whatever else it has.
C4_AlwaysMissingMsgAsClaimed ==
    (RanOnFn(Handlers) /\ ~HasParamNamed(item.sig.inputs, "msg"))
    => output = Panic(MissingMsgMsg)

\* C4 (amended): a marked function without a parameter named msg fails and
\* emits nothing, for both macros; the error is the missing-message error
\* when the function has a receiver and the missing-receiver error when not.
C4_NoMsgFails ==
    (RanOnFn(Handlers) /\ ~HasParamNamed(item.sig.inputs, "msg"))
    => /\ output.status = "panic"
       /\ output.tokens = <<>>
       /\ output.message = IF HasReceiverParam(item.sig.inputs)
                           THEN MissingMsgMsg ELSE MissingSelfMsg

\* tell_handler has run on a function with a receiver and a parameter named
\* `extra` but none named msg, and reported the missing message.
C4_Witness ==
    /\ invoked = "tell_handler"
    /\ item.kind = "fn"
    /\ HasReceiverParam(item.sig.inputs)
    /\ HasParamNamed(item.sig.inputs, "extra")
    /\ ~HasParamNamed(item.sig.inputs, "msg")
    /\ DeclaresResult(item.sig.output)
    /\ output = Panic(MissingMsgMsg)


-----------------------------------------------------------------------------
(* C5 *)

\* C5 (as claimed): with receiver and msg present, a declared return type
\* that is not Result with exactly two type arguments fails with an
\* invalid-return-type error, and the return type is accepted only when it
\* has exactly two type arguments.
C5_ExactlyTwoArgumentsAsClaimed ==
    (/\ RanOnFn(Handlers)
     /\ HasReceiverParam(item.sig.inputs)
     /\ HasParamNamed(item.sig.inputs, "msg")
     /\ item.sig.output.tag = "Type")
    => /\ ~DeclaresResult(item.sig.output)
            => (output.status = "panic" /\ output.message \in ReturnTypeMsgs)
       /\ output.status = "ok" => DeclaresResult(item.sig.output)

-----------------------------------------------------------------------------
(* C6 *)

\* The values bound to `error` in the actor attributes, in source order.
RECURSIVE MetaValues(_, _)
MetaValues(nested, keep_error) ==
    IF nested = <<>> THEN <<>>
    ELSE (IF (Head(nested).path = "error") = keep_error
          THEN <<Head(nested).value>> ELSE <<>>)
         \o MetaValues(Tail(nested), keep_error)
RECURSIVE ActorValues(_, _)
ActorValues(attrs, keep_error) ==
    IF attrs = <<>> THEN <<>>
    ELSE (IF Head(attrs).path = "actor"
          THEN MetaValues(Head(attrs).nested, keep_error) ELSE <<>>)
         \o ActorValues(Tail(attrs), keep_error)
ErrorBindings(attrs) == ActorValues(attrs, TRUE)
OtherBindings(attrs) == ActorValues(attrs, FALSE)

\* C6 (as claimed): derive(Actor) succeeds with a member-less impl of
\* ActorTrait<X> for T when T carries exactly one actor binding error = X;
\* it fails and emits nothing when T carries no error binding or an actor
\* attribute with another key; and no number of error bindings other than
\* one is accepted.
C6_ExactlyOneErrorBindingAsClaimed ==
    invoked = "derive_actor"
    => /\ (Len(ErrorBindings(item.attrs)) = 1 /\ OtherBindings(item.attrs) = <<>>)
            => output = Expanded(<<ItemImpl(<<>>, ActorTraitPath,
                                            <<ErrorBindings(item.attrs)[1]>>,
                                            Named(item.ident), <<>>)>>)
       /\ (Len(ErrorBindings(item.attrs)) = 0 \/ OtherBindings(item.attrs) # <<>>)
            => (output.status = "panic" /\ output.tokens = <<>>)
       /\ Len(ErrorBindings(item.attrs)) # 1 => output.status # "ok"

-----------------------------------------------------------------------------
(* C7 *)

\* C7: strip_reference returns, for every type, the type under all of its
\* reference wrappers; stripping the result again changes nothing; a type
\* that is no reference comes back unchanged.
C7_StripReferenceIdempotent ==
    invoked = "strip_reference"
    => /\ output.status = "returned"
       /\ output.value = Innermost(item.ty)
       /\ output.value.tag # "Reference"
       /\ strip_reference(output.value) = output.value
       /\ item.ty.tag # "Reference" => output.value = item.ty

\* strip_reference has run on a type under two or more reference wrappers.
C7_Witness ==
    /\ invoked = "strip_reference"
    /\ item.kind = "type"
    /\ RefDepth(item.ty) >= 2
    /\ output.value \in BaseTypes
    /\ output.value # item.ty

-----------------------------------------------------------------------------
(* C8 *)

\* Two parameters agree in form: receivers in their type, typed parameters in
\* their name and their type as written.
SameParam(a, b) ==
    /\ a.tag = b.tag
    /\ a.ty = b.ty
    /\ a.tag = "Typed"
         => /\ a.pat.tag = b.pat.tag
            /\ a.pat.tag = "Ident" => a.pat.ident = b.pat.ident
SameParams(emitted, original) ==
    /\ Len(emitted) = Len(original)
    /\ \A i \in 1..Len(original) : SameParam(emitted[i], original[i])

\* C8 (as claimed): on success the emitted method has the original's
\* parameters, in order, typed as written, and only the trait header uses
\* reference-stripped types.
C8_SignatureMirroredAsClaimed ==
    (RanOnFn(Handlers) /\ output.status = "ok")
    => /\ SameParams(output.tokens[1].items[1].inputs, item.sig.inputs)
       /\ output.tokens[1].self_ty.tag # "Reference"
       /\ \A i \in 1..Len(output.tokens[1].trait_args) :
              output.tokens[1].trait_args[i].tag # "Reference"

-----------------------------------------------------------------------------
(* C9 *)

\* The declared return type is not Result<T, E>: it is no path, or its first
\* segment is not Result, or it does not have exactly two arguments in angle
\* brackets.
NotResultShaped(ret) ==
    \/ ret.ty.tag # "Path"
    \/ Head(ret.ty.segments).ident # "Result"
    \/ Head(ret.ty.segments).arguments.tag # "AngleBracketed"
    \/ Len(Head(ret.ty.segments).arguments.args) # 2

ViolatesShape(f) ==
    \/ ~HasReceiverParam(f.sig.inputs)
    \/ ~HasParamNamed(f.sig.inputs, "msg")
    \/ f.sig.output.tag = "Default"
    \/ NotResultShaped(f.sig.output)

\* C9 (as claimed): a handler macro run on a function that has no receiver,
\* no msg parameter, no declared return type or a return type that is not
\* Result<T, E> ends in an error with no token emitted; tokens exist only
\* when the receiver type, the message type and both components of the
\* return type were resolved, and then they are one whole impl built from them.
C9_AllOrNothingAsClaimed ==
    RanOnFn(Handlers)
    => /\ ViolatesShape(item) => (output.status = "panic" /\ output.tokens = <<>>)
       /\ output.status \in {"ok", "panic"}
       /\ output.status = "panic" => output.tokens = <<>>
       /\ output.status = "ok"
            => /\ ~ViolatesShape(item)
               /\ Len(output.tokens) = 1
               /\ \E i \in 1..Len(item.sig.inputs) :
                      /\ item.sig.inputs[i].tag = "Receiver"
                      /\ output.tokens[1].self_ty = Innermost(item.sig.inputs[i].ty)
               /\ \E i \in 1..Len(item.sig.inputs) :
                      /\ IsNamed(item.sig.inputs[i], "msg")
                      /\ output.tokens[1].trait_args[1] = Innermost(item.sig.inputs[i].ty)
               /\ output.tokens[1].items[1].output.ty.segments[1].arguments.args[2]
                      = Head(item.sig.output.ty.segments).arguments.args[2]
               /\ invoked = "ask_handler"
                    => output.tokens[1].items[1].output.ty.segments[1].arguments.args[1]
                           = Head(item.sig.output.ty.segments).arguments.args[1]

-----------------------------------------------------------------------------
(* C10 *)

\* C10: both handler macros check in the order receiver, msg, return type,
\* after the whole parameter list was scanned: without a receiver the error
\* is the missing-receiver error; with a receiver and no msg parameter
\* (anywhere in the list) it is the missing-message error; an error about the
\* return type is reported only when receiver and msg were both found.
C10_ValidationOrder ==
    RanOnFn(Handlers)
    => /\ ~HasReceiverParam(item.sig.inputs) => output = Panic(MissingSelfMsg)
       /\ (HasReceiverParam(item.sig.inputs) /\ ~HasParamNamed(item.sig.inputs, "msg"))
            => output = Panic(MissingMsgMsg)
       /\ (output.status = "panic"
           /\ output.message \in ReturnTypeMsgs \cup {MissingReturnMsg})
            => (HasReceiverParam(item.sig.inputs) /\ HasParamNamed(item.sig.inputs, "msg"))
       /\ (/\ HasReceiverParam(item.sig.inputs)
           /\ HasParamNamed(item.sig.inputs, "msg")
           /\ output.status = "panic")
            => output.message \in ReturnTypeMsgs \cup {MissingReturnMsg}

\* ask_handler has run on a function that has neither receiver nor msg
\* parameter nor a Result return type, and reported the missing receiver.
C10_Witness ==
    /\ invoked = "ask_handler"
    /\ item.kind = "fn"
    /\ ~HasReceiverParam(item.sig.inputs)
    /\ ~HasParamNamed(item.sig.inputs, "msg")
    /\ item.sig.output = ReturnType(Generic("Option", <<Pong>>))
    /\ output = Panic(MissingSelfMsg)

=============================================================================
